---- MODULE Spec2Model ----
(***************************************************************************)
(* Model of projects/android/iutctl.py: the module-level id counter, the   *)
(* device enumerator, the AndroidCtl constructor and the AndroidCtl        *)
(* lifecycle (start / stop / reset / wait_iut_ready_event).                *)
(*                                                                         *)
(* Three specifications share the variables:                               *)
(*   Spec      one constructed controller driven through its lifecycle,    *)
(*             one statement at a time;                                    *)
(*   SpecCtor  controllers constructed one after another in one process;   *)
(*   SpecConc  controllers constructed by concurrent threads, the          *)
(*             statements of get_next_id interleaved.                      *)
(***************************************************************************)
EXTENDS Integers, Sequences, FiniteSets, TLC

VARIABLES
    ID,             \* module global ID (line 30)
    id,             \* self.id
    serial_num,     \* self.serial_num
    host,           \* self.host
    port,           \* self.port
    _btp_socket,    \* self._btp_socket: 0 is None, n > 0 the n-th BTPWebSocket made
    _btp_worker,    \* self._btp_worker: 0 is None, n > 0 the n-th BTPWorker made
    sockets,        \* number of BTPWebSocket objects made so far
    workers,        \* the BTPWorker objects made so far, by the calls made on each
    frames,         \* the call stack of the controller's caller: next statement of each active method
    call,           \* the public method called last: name, outcome and what it did
    attempts,       \* SpecCtor: one record per AndroidCtl(...) call made so far
    thr,            \* SpecConc: per constructing thread, its position and locals
    listing,        \* SpecEnum: one run of _android_list_devices, its input and result
    tap,            \* the run of _adb_tap_ok made last: what it was given and what it did
    other           \* SpecStop: the statement a second context calling stop() runs next

vars == <<ID, id, serial_num, host, port, _btp_socket, _btp_worker, sockets,
          workers, frames, call, attempts, thr, listing, tap, other>>

ctlVars == <<id, serial_num, host, port>>
sessVars == <<_btp_socket, _btp_worker, sockets, workers, frames, call>>
auxVars == <<listing, tap, other>>

-----------------------------------------------------------------------------
(* Bounds *)

MaxObjs == 3        \* BTPWebSocket objects one controller may make in a run
MaxLines == 3       \* lines after the header in an "adb devices" output (SpecEnum)
MaxViewLines == 2   \* lines of a view hierarchy dump (SpecTap)
MaxCoord == 3       \* largest corner coordinate of a dumped rectangle (SpecTap)
MaxCtl == 3         \* AndroidCtl(...) calls in one process (SpecCtor)
NumThreads == 3     \* threads constructing concurrently (SpecConc)

-----------------------------------------------------------------------------
(* Values *)

\* Python None for a reference, and an optional argument: <<>> is None, <<v>> is v.
None == 0
NoArg == <<>>
Arg(v) == <<v>>

\* Python truthiness of an optional string / integer argument.
TruthyStr(a) == a # NoArg /\ a[1] # ""
TruthyInt(a) == a # NoArg /\ a[1] # 0

PORT_DEFAULT == 8765

BTP_SERVICE_ID_CORE == 0
CORE_EV_IUT_READY == 128

Last(s) == s[Len(s)]
Front(s) == SubSeq(s, 1, Len(s) - 1)

-----------------------------------------------------------------------------
(* get_next_id, lines 43-47 *)

\* Mutant: the counter is not incremented.
get_next_id_noinc(cur) == [ret |-> cur, ID |-> cur]

\* Run without interleaving: returns the old value and leaves ID one larger.
get_next_id(cur) == [ret |-> cur, ID |-> cur + 1]

-----------------------------------------------------------------------------
(* _android_list_devices, lines 50-61.  The output of "adb devices" is a   *)
(* sequence of lines, a line a sequence of one-character strings.          *)

IsSpace(c) == c \in {" ", "\t"}

Blank(line) == \A i \in 1..Len(line) : IsSpace(line[i])

\* str.strip() on the whole output: blank lines at either end disappear.
RECURSIVE DropLeadingBlank(_)
DropLeadingBlank(ls) ==
    IF ls # <<>> /\ Blank(Head(ls)) THEN DropLeadingBlank(Tail(ls)) ELSE ls

RECURSIVE DropTrailingBlank(_)
DropTrailingBlank(ls) ==
    IF ls # <<>> /\ Blank(Last(ls)) THEN DropTrailingBlank(Front(ls)) ELSE ls

StripLines(ls) == DropTrailingBlank(DropLeadingBlank(ls))

\* str.split(): the maximal runs of non-whitespace characters, as strings.
RECURSIVE SplitFrom(_, _, _)
SplitFrom(line, i, cur) ==
    IF i > Len(line)
    THEN IF cur = "" THEN <<>> ELSE <<cur>>
    ELSE IF IsSpace(line[i])
         THEN (IF cur = "" THEN <<>> ELSE <<cur>>) \o SplitFrom(line, i + 1, "")
         ELSE SplitFrom(line, i + 1, cur \o line[i])

split(line) == SplitFrom(line, 1, "")

RECURSIVE CollectDevices(_)
CollectDevices(ls) ==
    IF ls = <<>> THEN <<>>
    ELSE LET fields == split(Head(ls))
         IN  (IF Len(fields) < 2 THEN <<>> ELSE <<fields[1]>>)
             \o CollectDevices(Tail(ls))

\* Mutant: the header line is not dropped.
_android_list_devices_keephdr(out) == CollectDevices(StripLines(out))

_android_list_devices(out) ==
    LET output == StripLines(out)
        rest == IF output = <<>> THEN <<>> ELSE Tail(output)   \* output[1:]
    IN  CollectDevices(rest)

-----------------------------------------------------------------------------
(* The outputs of "adb devices" the model draws from. *)

HeaderLine == <<"L","i","s","t"," ","o","f"," ","d","e","v","i","c","e","s",
                " ","a","t","t","a","c","h","e","d">>
LineABC == <<"A","B","C","1","2","3","\t","d","e","v","i","c","e">>
LineXYZ == <<"X","Y","Z","\t","d","e","v","i","c","e">>
LineOneField == <<"Q","Q">>

AdbOutputs ==
    { <<HeaderLine>>,
      <<HeaderLine, LineABC>>,
      <<HeaderLine, LineABC, <<>> >>,
      <<HeaderLine, LineXYZ, LineABC>>,
      <<HeaderLine, LineOneField, <<>>, LineABC, LineXYZ>> }

\* A header line followed by exactly one well-formed device line.
OneDeviceOutput == <<HeaderLine, LineABC>>

\* What the two adb commands of __init__ may do: print their output (ok), or
\* exit non-zero, which makes subprocess.check_output raise.
AdbListResults ==
    {[ok |-> TRUE, out |-> o] : o \in AdbOutputs} \cup {[ok |-> FALSE, out |-> <<>>]}
AdbIpResults ==
    {[ok |-> TRUE, out |-> "10.0.0.2"], [ok |-> TRUE, out |-> ""],
     [ok |-> FALSE, out |-> ""]}

SerialArgs == {NoArg, Arg(""), Arg("SN1")}
HostArgs == {NoArg, Arg("192.168.0.7")}
PortArgs == {NoArg, Arg(0), Arg(9000)}

-----------------------------------------------------------------------------
(* _find_button_coords, lines 68-74, and _adb_tap_ok, lines 77-95.  A view *)
(* dump is a sequence of lines, a line a sequence of elements, an element  *)
(* its text attribute and the four numbers of its bounds attribute.        *)

\* The pattern wants four runs of digits in bounds: a corner with a minus
\* sign does not match.
BoundsMatch(b) == \A i \in 1..4 : b[i] >= 0

\* Mutant: the midpoint is rounded up.
Midpoint_up(b) == <<(b[1] + b[3] + 1) \div 2, (b[2] + b[4] + 1) \div 2>>

\* printf "%d %d", ($1+$3)/2, ($2+$4)/2: the quotients cut to integers.
Midpoint(b) == <<(b[1] + b[3]) \div 2, (b[2] + b[4]) \div 2>>

\* perl -n applies the pattern to each line; the match found in a line is the
\* leftmost element with the text and matching bounds.
RECURSIVE MatchInLine(_, _)
MatchInLine(text, line) ==
    IF line = <<>> THEN <<>>
    ELSE IF Head(line).text = text /\ BoundsMatch(Head(line).bounds)
         THEN <<Midpoint(Head(line).bounds)>>
         ELSE MatchInLine(text, Tail(line))

\* The stripped output of the command: one coordinate per matching line, the
\* empty sequence (the empty string, which "if not coords" takes) when none.
RECURSIVE _find_button_coords(_, _)
_find_button_coords(text, view) ==
    IF view = <<>> THEN <<>>
    ELSE MatchInLine(text, Head(view)) \o _find_button_coords(text, Tail(view))

\* The run ended at the dump or the pull command (check_output / check_call
\* raised): nothing was looked up, nothing tapped.
TapRaisedEarly(sn, screen, env) ==
    [sn |-> sn, screen |-> screen, env |-> env, pulled |-> FALSE,
     lookups |-> <<>>, coords |-> <<>>, taps |-> <<>>, outcome |-> "raised"]

\* Mutant: "PAIR" is looked up first, "OK" only when it is absent.
_adb_tap_ok_pairfirst(sn, screen, env) ==
    IF ~env.dumpOk \/ ~env.pullOk THEN TapRaisedEarly(sn, screen, env)
    ELSE LET first == _find_button_coords("PAIR", screen)
             coords == IF first = <<>> THEN _find_button_coords("OK", screen) ELSE first
         IN  [sn |-> sn, screen |-> screen, env |-> env, pulled |-> TRUE,
              lookups |-> IF first = <<>> THEN <<"PAIR", "OK">> ELSE <<"PAIR">>,
              coords |-> coords,
              taps |-> <<coords>>,
              outcome |-> IF env.tapOk THEN "returned" ELSE "raised"]

\* Mutant: a lookup that finds neither label raises before any tap.
_adb_tap_ok_checked(sn, screen, env) ==
    IF ~env.dumpOk \/ ~env.pullOk THEN TapRaisedEarly(sn, screen, env)
    ELSE LET first == _find_button_coords("OK", screen)
             coords == IF first = <<>> THEN _find_button_coords("PAIR", screen) ELSE first
         IN  [sn |-> sn, screen |-> screen, env |-> env, pulled |-> TRUE,
              lookups |-> IF first = <<>> THEN <<"OK", "PAIR">> ELSE <<"OK">>,
              coords |-> coords,
              taps |-> IF coords = <<>> THEN <<>> ELSE <<coords>>,
              outcome |-> IF env.tapOk /\ coords # <<>> THEN "returned" ELSE "raised"]

\* _adb_tap_ok(sn) run to its end on a device showing screen; env says which
\* of the adb commands exit with zero.
_adb_tap_ok(sn, screen, env) ==
    IF ~env.dumpOk \/ ~env.pullOk THEN TapRaisedEarly(sn, screen, env)  \* lines 81, 86
    ELSE LET first == _find_button_coords("OK", screen)                  \* line 90
             coords == IF first = <<>>                                   \* lines 91-92
                       THEN _find_button_coords("PAIR", screen)
                       ELSE first
         IN  [sn |-> sn, screen |-> screen, env |-> env, pulled |-> TRUE,
              lookups |-> IF first = <<>> THEN <<"OK", "PAIR">> ELSE <<"OK">>,
              coords |-> coords,
              taps |-> <<coords>>,                                       \* lines 94-95
              outcome |-> IF env.tapOk THEN "returned" ELSE "raised"]

-----------------------------------------------------------------------------
(* AndroidCtl.__init__, lines 122-155, run without interleaving: the value *)
(* of ID it leaves, whether it raised, and the fields it assigned.         *)

\* The constructor raised exception e after taking the id idv: no controller
\* is returned.
CtorRaised(e, cur, idv) ==
    [exc |-> e, ID |-> cur, id |-> idv, serial_num |-> "", host |-> "", port |-> 0]

\* Mutant: the device list is indexed from its first entry, not by self.id.
DeviceAt_first(devices, i) == IF devices = <<>> THEN <<>> ELSE <<devices[1]>>

\* devices[self.id] (line 132): <<>> stands for IndexError.
DeviceAt(devices, i) == IF i + 1 > Len(devices) THEN <<>> ELSE <<devices[i + 1]>>

AndroidCtl__init__(cur, serial_arg, host_arg, port_arg, list, ip) ==
    LET g == get_next_id(cur)                                        \* line 126
        devices == _android_list_devices(list.out)                   \* line 131
        found == DeviceAt(devices, g.ret)                            \* line 132
    IN  IF ~TruthyStr(serial_arg) /\ ~list.ok
        THEN CtorRaised("CalledProcessError(adb devices)", g.ID, g.ret)
        ELSE IF ~TruthyStr(serial_arg) /\ found = <<>>
        THEN CtorRaised("IndexError", g.ID, g.ret)
        ELSE IF ~TruthyStr(host_arg) /\ ~ip.ok                       \* line 137
        THEN CtorRaised("CalledProcessError(adb shell ip)", g.ID, g.ret)
        ELSE [exc |-> "none", ID |-> g.ID, id |-> g.ret,
              serial_num |-> IF TruthyStr(serial_arg) THEN serial_arg[1] ELSE found[1],
              host |-> IF TruthyStr(host_arg) THEN host_arg[1] ELSE ip.out,
              port |-> IF TruthyInt(port_arg) THEN port_arg[1] ELSE PORT_DEFAULT]

\* The call record before any public method was called.
NoCall ==
    [name |-> "none", outcome |-> "none", afterStop |-> FALSE, stops |-> 0,
     closes |-> 0, startRes |-> "none", hdr |-> <<>>, old |-> None, settings |-> 0,
     reads |-> 0, readOn |-> None, noneDeref |-> FALSE]

\* A thread that has called AndroidCtl(...) and is about to run get_next_id.
ThreadStart == [pc |-> "line45", next_id |-> -1, tmp |-> -1, id |-> -1]

NoThreads == [t \in 1..NumThreads |-> ThreadStart]

\* _android_list_devices has not been run on its own.
NoListing == [out |-> <<>>, devices |-> <<>>, done |-> FALSE]

\* _adb_tap_ok has not been run.
NoTap == [sn |-> "", screen |-> <<>>,
          env |-> [dumpOk |-> TRUE, pullOk |-> TRUE, tapOk |-> TRUE],
          pulled |-> FALSE, lookups |-> <<>>, coords |-> <<>>, taps |-> <<>>,
          outcome |-> "none"]

\* Nothing but the controller's caller is running.
AuxIdle == listing = NoListing /\ tap = NoTap /\ other = "idle"

-----------------------------------------------------------------------------
(* Initial states *)

\* Spec: the state right after one AndroidCtl(...) call returned (lines 144-145
\* leave both references None); no method was called yet.
Init ==
    \E cur \in 0..1, sa \in SerialArgs, ha \in HostArgs, pa \in PortArgs,
       list \in AdbListResults, ip \in AdbIpResults :
        LET r == AndroidCtl__init__(cur, sa, ha, pa, list, ip)
        IN  /\ r.exc = "none"
            /\ ID = r.ID
            /\ id = r.id
            /\ serial_num = r.serial_num
            /\ host = r.host
            /\ port = r.port
            /\ _btp_socket = None
            /\ _btp_worker = None
            /\ sockets = 0
            /\ workers = <<>>
            /\ frames = <<>>
            /\ call = NoCall
            /\ attempts = <<>>
            /\ thr = NoThreads
            /\ AuxIdle

\* SpecCtor, SpecConc: the process has imported the module (line 30) and has
\* constructed nothing.
ProcessStart ==
    /\ ID = 0
    /\ id = -1
    /\ serial_num = ""
    /\ host = ""
    /\ port = 0
    /\ _btp_socket = None
    /\ _btp_worker = None
    /\ sockets = 0
    /\ workers = <<>>
    /\ frames = <<>>
    /\ call = NoCall
    /\ attempts = <<>>
    /\ thr = NoThreads

InitProcess == ProcessStart /\ AuxIdle

-----------------------------------------------------------------------------
(* The lifecycle of one controller (Spec).  frames is the call stack, its  *)
(* last element the statement to run next, named by method and line.       *)

Top == Last(frames)
At(label) == frames # <<>> /\ Top = label

InStart == frames # <<>> /\ Top \in {"start176", "start177", "start179", "start180", "start181"}

\* The next statement of the running method is l.
Goto(l) == frames' = [frames EXCEPT ![Len(frames)] = l]

\* The running method calls another one: it will resume at resume.
Invoke(resume, entry) == frames' = Append([frames EXCEPT ![Len(frames)] = resume], entry)

\* The running method returns; c is the call record it leaves.
Return(c) ==
    /\ frames' = Front(frames)
    /\ call' = [c EXCEPT !.outcome = IF Len(frames) = 1 THEN "returned" ELSE @]

\* The statement raises: no method of the class catches it, so every active
\* method is left and the public call ends with the exception.
Raise(c) ==
    /\ frames' = <<>>
    /\ call' = [c EXCEPT !.outcome = "raised",
                         !.startRes = IF InStart THEN "threw" ELSE @]

\* A public method is called while none is running.
Begin(name, entry) ==
    /\ frames = <<>>
    /\ frames' = <<entry>>
    /\ call' = [NoCall EXCEPT !.name = name, !.outcome = "running",
                              !.afterStop = (call.name = "stop" /\ call.outcome = "returned"),
                              !.old = _btp_worker]

NewWorker == [sock |-> _btp_socket, opened |-> FALSE, registered |-> FALSE,
              accepting |-> FALSE, closed |-> FALSE]

\* The frame headers read() may return.
Headers == [svc_id : {BTP_SERVICE_ID_CORE, BTP_SERVICE_ID_CORE + 1},
            op : {CORE_EV_IUT_READY, CORE_EV_IUT_READY + 1}]

CallStart ==
    /\ sockets < MaxObjs
    /\ Begin("start", "start176")
    /\ UNCHANGED <<ID, ctlVars, _btp_socket, _btp_worker, sockets, workers, attempts, thr, auxVars>>

CallStop ==
    /\ Begin("stop", "stop211")
    /\ UNCHANGED <<ID, ctlVars, _btp_socket, _btp_worker, sockets, workers, attempts, thr, auxVars>>

CallReset ==
    /\ sockets < MaxObjs
    /\ Begin("reset", "reset184")
    /\ UNCHANGED <<ID, ctlVars, _btp_socket, _btp_worker, sockets, workers, attempts, thr, auxVars>>

CallWait ==
    /\ sockets < MaxObjs
    /\ Begin("wait_iut_ready_event", "wait194")
    /\ UNCHANGED <<ID, ctlVars, _btp_socket, _btp_worker, sockets, workers, attempts, thr, auxVars>>

\* Mutant: start() falls back to the default port before it connects.
Start176_defport ==
    /\ At("start176")
    /\ port' = PORT_DEFAULT
    /\ \E ok \in BOOLEAN :
        IF ok
        THEN /\ sockets' = sockets + 1
             /\ _btp_socket' = sockets + 1
             /\ Goto("start177")
             /\ UNCHANGED call
        ELSE /\ Raise(call)
             /\ UNCHANGED <<sockets, _btp_socket>>
    /\ UNCHANGED <<ID, id, serial_num, host, _btp_worker, workers, attempts, thr, auxVars>>

\* line 176: self._btp_socket = BTPWebSocket(self.host, self.port)
Start176 ==
    /\ At("start176")
    /\ \E ok \in BOOLEAN :
        IF ok
        THEN /\ sockets' = sockets + 1
             /\ _btp_socket' = sockets + 1
             /\ Goto("start177")
             /\ UNCHANGED call
        ELSE /\ Raise(call)
             /\ UNCHANGED <<sockets, _btp_socket>>
    /\ UNCHANGED <<ID, ctlVars, _btp_worker, workers, attempts, thr, auxVars>>

\* lines 177-178: self._btp_worker = BTPWorker(self._btp_socket, ...)
Start177 ==
    /\ At("start177")
    /\ \E ok \in BOOLEAN :
        IF ok
        THEN /\ workers' = Append(workers, NewWorker)
             /\ _btp_worker' = Len(workers) + 1
             /\ Goto("start179")
             /\ UNCHANGED call
        ELSE /\ Raise(call)
             /\ UNCHANGED <<workers, _btp_worker>>
    /\ UNCHANGED <<ID, ctlVars, _btp_socket, sockets, attempts, thr, auxVars>>

\* line 179: self._btp_worker.open()
Start179 ==
    /\ At("start179")
    /\ \E ok \in BOOLEAN :
        IF ok
        THEN /\ workers' = [workers EXCEPT ![_btp_worker].opened = TRUE]
             /\ Goto("start180")
             /\ UNCHANGED call
        ELSE /\ Raise(call)
             /\ UNCHANGED workers
    /\ UNCHANGED <<ID, ctlVars, _btp_socket, _btp_worker, sockets, attempts, thr, auxVars>>

\* line 180: self._btp_worker.register_event_handler(self._event_handler)
Start180 ==
    /\ At("start180")
    /\ \E ok \in BOOLEAN :
        IF ok
        THEN /\ workers' = [workers EXCEPT ![_btp_worker].registered = TRUE]
             /\ Goto("start181")
             /\ UNCHANGED call
        ELSE /\ Raise(call)
             /\ UNCHANGED workers
    /\ UNCHANGED <<ID, ctlVars, _btp_socket, _btp_worker, sockets, attempts, thr, auxVars>>

\* line 181: self._btp_worker.accept(), then start() returns
Start181 ==
    /\ At("start181")
    /\ \E ok \in BOOLEAN :
        IF ok
        THEN /\ workers' = [workers EXCEPT ![_btp_worker].accepting = TRUE]
             /\ Return([call EXCEPT !.startRes = "ok"])
        ELSE /\ Raise(call)
             /\ UNCHANGED workers
    /\ UNCHANGED <<ID, ctlVars, _btp_socket, _btp_worker, sockets, attempts, thr, auxVars>>

\* lines 211-212: if self._btp_worker: self._btp_worker.close()
\* BTPWorker.close() is taken to return: the file gives it no failure path and
\* the methods that call stop() handle none.
Stop211 ==
    /\ At("stop211")
    /\ IF _btp_worker # None
       THEN /\ workers' = [workers EXCEPT ![_btp_worker].closed = TRUE]
            /\ Goto("stop213")
            /\ call' = [call EXCEPT !.stops = @ + 1, !.closes = @ + 1]
       ELSE /\ Return([call EXCEPT !.stops = @ + 1])
            /\ UNCHANGED workers
    /\ UNCHANGED <<ID, ctlVars, _btp_socket, _btp_worker, sockets, attempts, thr, auxVars>>

\* line 213: self._btp_worker = None
Stop213 ==
    /\ At("stop213")
    /\ _btp_worker' = None
    /\ Goto("stop214")
    /\ UNCHANGED <<ID, ctlVars, _btp_socket, sockets, workers, call, attempts, thr, auxVars>>

\* line 214: self._btp_socket = None, then stop() returns
Stop214 ==
    /\ At("stop214")
    /\ _btp_socket' = None
    /\ Return(call)
    /\ UNCHANGED <<ID, ctlVars, _btp_worker, sockets, workers, attempts, thr, auxVars>>

\* line 184: self.stop()
Reset184 ==
    /\ At("reset184")
    /\ Invoke("reset185", "stop211")
    /\ UNCHANGED <<ID, ctlVars, _btp_socket, _btp_worker, sockets, workers, call, attempts, thr, auxVars>>

\* Mutant: start() is not called; reset() goes on to line 191.
Reset185_nostart ==
    /\ At("reset185")
    /\ Goto("reset191")
    /\ UNCHANGED <<ID, ctlVars, _btp_socket, _btp_worker, sockets, workers, call, attempts, thr, auxVars>>

\* line 185: self.start()
Reset185 ==
    /\ At("reset185")
    /\ Invoke("reset191", "start176")
    /\ UNCHANGED <<ID, ctlVars, _btp_socket, _btp_worker, sockets, workers, call, attempts, thr, auxVars>>

\* line 191: _adb_open_bluetooth_settings(self.serial_num); check_call raises
\* when the command exits non-zero.  Then reset() returns.
Reset191 ==
    /\ At("reset191")
    /\ \E ok \in BOOLEAN :
        IF ok
        THEN Return([call EXCEPT !.settings = @ + 1])
        ELSE Raise([call EXCEPT !.settings = @ + 1])
    /\ UNCHANGED <<ID, ctlVars, _btp_socket, _btp_worker, sockets, workers, attempts, thr, auxVars>>

\* Mutant: reset() is not called; the read is made on whatever is referenced.
Wait194_noreset ==
    /\ At("wait194")
    /\ Goto("wait196")
    /\ UNCHANGED <<ID, ctlVars, _btp_socket, _btp_worker, sockets, workers, call, attempts, thr, auxVars>>

\* line 194: self.reset()
Wait194 ==
    /\ At("wait194")
    /\ Invoke("wait196", "reset184")
    /\ UNCHANGED <<ID, ctlVars, _btp_socket, _btp_worker, sockets, workers, call, attempts, thr, auxVars>>

\* line 196: tuple_hdr, tuple_data = self._btp_worker.read().  With the
\* reference None the attribute lookup raises; otherwise read() is called on
\* the referenced worker and hands over one frame, or raises.
Wait196 ==
    /\ At("wait196")
    /\ IF _btp_worker = None
       THEN Raise([call EXCEPT !.noneDeref = TRUE])
       ELSE \/ \E h \in Headers :
                /\ call' = [call EXCEPT !.hdr = <<h>>, !.reads = @ + 1,
                                        !.readOn = _btp_worker]
                /\ Goto("wait198")
            \/ Raise([call EXCEPT !.reads = @ + 1, !.readOn = _btp_worker])
    /\ UNCHANGED <<ID, ctlVars, _btp_socket, _btp_worker, sockets, workers, attempts, thr, auxVars>>

\* Mutant: the frame is rejected only when both fields differ ("and" for "or").
Wait198_and ==
    /\ At("wait198")
    /\ LET tuple_hdr == call.hdr[1]
       IN  IF tuple_hdr.svc_id # BTP_SERVICE_ID_CORE /\ tuple_hdr.op # CORE_EV_IUT_READY
           THEN /\ Invoke("wait204", "stop211")
                /\ UNCHANGED call
           ELSE Return(call)
    /\ UNCHANGED <<ID, ctlVars, _btp_socket, _btp_worker, sockets, workers, attempts, thr, auxVars>>

\* Mutant: the BTPError is not caught; it leaves the method.
Wait198_uncaught ==
    /\ At("wait198")
    /\ LET tuple_hdr == call.hdr[1]
       IN  IF tuple_hdr.svc_id # BTP_SERVICE_ID_CORE \/ tuple_hdr.op # CORE_EV_IUT_READY
           THEN Raise(call)
           ELSE Return(call)
    /\ UNCHANGED <<ID, ctlVars, _btp_socket, _btp_worker, sockets, workers, attempts, thr, auxVars>>

\* lines 198-206: the BTPError raised at line 201 is caught at line 202, whose
\* handler calls self.stop() (line 204); otherwise the method returns.
Wait198 ==
    /\ At("wait198")
    /\ LET tuple_hdr == call.hdr[1]
       IN  IF tuple_hdr.svc_id # BTP_SERVICE_ID_CORE \/ tuple_hdr.op # CORE_EV_IUT_READY
           THEN /\ Invoke("wait204", "stop211")
                /\ UNCHANGED call
           ELSE Return(call)
    /\ UNCHANGED <<ID, ctlVars, _btp_socket, _btp_worker, sockets, workers, attempts, thr, auxVars>>

\* after line 204: the handler is done and the method returns
Wait204 ==
    /\ At("wait204")
    /\ Return(call)
    /\ UNCHANGED <<ID, ctlVars, _btp_socket, _btp_worker, sockets, workers, attempts, thr, auxVars>>

Next ==
    \/ CallStart \/ CallStop \/ CallReset \/ CallWait
    \/ Start176 \/ Start177 \/ Start179 \/ Start180 \/ Start181
    \/ Stop211 \/ Stop213 \/ Stop214
    \/ Reset184 \/ Reset185 \/ Reset191
    \/ Wait194 \/ Wait196 \/ Wait198 \/ Wait204

Spec == Init /\ [][Next]_vars

-----------------------------------------------------------------------------
(* Controllers constructed one after another (SpecCtor).                   *)

\* AndroidCtl(serial_num, host, port): the whole of __init__.  A constructor
\* that raises returns no object; one that returns leaves the new object's
\* fields as assigned, both references None (lines 144-145).
Construct ==
    /\ Len(attempts) < MaxCtl
    /\ \E sa \in SerialArgs, ha \in HostArgs, pa \in PortArgs,
          list \in AdbListResults, ip \in AdbIpResults :
        LET r == AndroidCtl__init__(ID, sa, ha, pa, list, ip)
        IN  /\ ID' = r.ID
            /\ attempts' = Append(attempts,
                    [id |-> r.id, exc |-> r.exc, serial_num |-> r.serial_num,
                     listed |-> IF TruthyStr(sa) THEN <<>> ELSE <<list>>])
            /\ IF r.exc # "none"
               THEN UNCHANGED <<ctlVars, _btp_socket, _btp_worker>>
               ELSE /\ id' = r.id
                    /\ serial_num' = r.serial_num
                    /\ host' = r.host
                    /\ port' = r.port
                    /\ _btp_socket' = None
                    /\ _btp_worker' = None
    /\ UNCHANGED <<sockets, workers, frames, call, thr, auxVars>>

NextCtor == Construct

SpecCtor == InitProcess /\ [][NextCtor]_vars

-----------------------------------------------------------------------------
(* Controllers constructed by concurrent threads (SpecConc): get_next_id   *)
(* one bytecode-level step at a time.  Nothing in lines 43-47 or 126 takes *)
(* a lock, so the interpreter may switch threads between any two steps.    *)

\* line 45: next_id = ID
GetNextId45(t) ==
    /\ thr[t].pc = "line45"
    /\ thr' = [thr EXCEPT ![t].next_id = ID, ![t].pc = "line46load"]
    /\ UNCHANGED <<ID, ctlVars, sessVars, attempts, auxVars>>

\* line 46, ID += 1: the global is loaded ...
GetNextId46Load(t) ==
    /\ thr[t].pc = "line46load"
    /\ thr' = [thr EXCEPT ![t].tmp = ID, ![t].pc = "line46store"]
    /\ UNCHANGED <<ID, ctlVars, sessVars, attempts, auxVars>>

\* ... and the sum is stored back
GetNextId46Store(t) ==
    /\ thr[t].pc = "line46store"
    /\ ID' = thr[t].tmp + 1
    /\ thr' = [thr EXCEPT ![t].pc = "line47"]
    /\ UNCHANGED <<ctlVars, sessVars, attempts, auxVars>>

\* line 47: return next_id, assigned to self.id at line 126
GetNextId47(t) ==
    /\ thr[t].pc = "line47"
    /\ thr' = [thr EXCEPT ![t].id = thr[t].next_id, ![t].pc = "done"]
    /\ UNCHANGED <<ID, ctlVars, sessVars, attempts, auxVars>>

NextConc ==
    \E t \in 1..NumThreads :
        \/ GetNextId45(t)
        \/ GetNextId46Load(t)
        \/ GetNextId46Store(t)
        \/ GetNextId47(t)

SpecConc == InitProcess /\ [][NextConc]_vars

-----------------------------------------------------------------------------
(* Controller states *)

\* No public method is running: the states a caller observes between calls.
Idle == frames = <<>>

Stopped == _btp_worker = None /\ _btp_socket = None

\* The referenced worker is open, has the handler registered and is accepting.
Accepting ==
    /\ _btp_worker # None
    /\ workers[_btp_worker].opened
    /\ workers[_btp_worker].registered
    /\ workers[_btp_worker].accepting
    /\ ~workers[_btp_worker].closed

Running == Accepting /\ _btp_socket # None

\* The header read at line 196 is the ready event.
IsReady(h) == h.svc_id = BTP_SERVICE_ID_CORE /\ h.op = CORE_EV_IUT_READY

\* wait_iut_ready_event() has ended after its read delivered a frame.
WaitEnded == Idle /\ call.name = "wait_iut_ready_event" /\ call.hdr # <<>>

-----------------------------------------------------------------------------
(* Claims *)

\* C1: between public calls, the worker reference and the socket reference are
\* either both present or both absent.  Fails: start() from Stopped in which
\* BTPWorker(...) raises leaves the socket assigned and the worker None.
C1_PairBothOrNeither == Idle => ((_btp_worker = None) <=> (_btp_socket = None))

\* C2: when reset() has ended, the controller is Running if the start() inside
\* it succeeded and Stopped if that start() raised.  Fails: a start() that
\* raises at open(), register_event_handler() or accept() leaves both
\* references assigned.
C2_ResetRunningOrStopped ==
    (Idle /\ call.name = "reset") =>
        /\ call.startRes = "ok" => Running
        /\ call.startRes = "threw" => Stopped

\* C3 as claimed: wait_iut_ready_event() ends with stop() never called when the
\* first frame is the ready event, and with stop() called exactly once and no
\* worker referenced when it is any other frame.
C3_StopNeverOrOnce ==
    WaitEnded =>
        IF IsReady(call.hdr[1])
        THEN call.stops = 0
        ELSE call.stops = 1 /\ _btp_worker = None

\* C3 as amended: the reset() inside wait_iut_ready_event() always calls stop()
\* once.  With the ready event as first frame that is the only stop() call and
\* the worker started by reset() stays referenced and open; with any other
\* first frame stop() is called exactly twice (by reset() and by the handler
\* at line 204) and the call ends with no worker referenced, the worker it
\* started closed.
C3_StopOnceOrTwice ==
    WaitEnded =>
        IF IsReady(call.hdr[1])
        THEN call.stops = 1 /\ _btp_worker = Len(workers) /\ ~workers[_btp_worker].closed
        ELSE call.stops = 2 /\ _btp_worker = None /\ workers[Len(workers)].closed

C3_Witness ==
    WaitEnded /\ ~IsReady(call.hdr[1]) /\ call.stops = 2 /\ call.old # None

\* C4: whenever stop() has returned both references are absent, and a stop()
\* that directly follows a stop() closes no worker.  Fails from the state C1
\* fails in: stop() does nothing when the worker is None, so a socket left
\* alone by a failed start() stays referenced through both calls.
C4_StopIdempotent ==
    (Idle /\ call.name = "stop") =>
        /\ Stopped
        /\ call.afterStop => call.closes = 0

\* C5: in reset(), when stop() has returned and start() is about to be called,
\* both references are absent.  Fails from the state C1 fails in.
C5_ResetPassesThroughStopped == At("reset185") => Stopped

\* C6: reset() issues the open-Bluetooth-settings command only once its
\* start() has returned normally: the referenced worker is the one just made,
\* it is open, has the handler registered and is accepting, and the worker
\* referenced when reset() began has been closed; the command is never issued
\* in a call whose start() raised.
C6_SettingsOnlyWhenAccepting ==
    /\ At("reset191") =>
        /\ call.startRes = "ok"
        /\ Running
        /\ _btp_worker = Len(workers)
        /\ _btp_worker # call.old
        /\ call.old # None => workers[call.old].closed
    /\ call.settings > 0 => call.startRes = "ok"

C6_Witness == At("reset191") /\ call.old # None /\ workers[call.old].opened

\* C7: when wait_iut_ready_event() has read a frame it returns normally,
\* whatever the frame, and it leaves the controller Running if the frame was
\* the ready event and Stopped if it was not.
C7_WaitReturnsNormally ==
    WaitEnded =>
        /\ call.outcome = "returned"
        /\ IsReady(call.hdr[1]) => Running
        /\ ~IsReady(call.hdr[1]) => Stopped

C7_Witness ==
    /\ WaitEnded /\ Stopped
    /\ call.hdr[1].svc_id = BTP_SERVICE_ID_CORE
    /\ call.hdr[1].op # CORE_EV_IUT_READY

\* C8: when all concurrently constructing threads have their id, no two ids
\* are equal and ID equals the number of controllers constructed.  Fails: two
\* threads can both run line 45 before either runs line 46.
C8_ConcurrentIdsDistinct ==
    (\A t \in 1..NumThreads : thr[t].pc = "done") =>
        /\ \A t, u \in 1..NumThreads : t # u => thr[t].id # thr[u].id
        /\ ID = NumThreads

\* C9: with controllers constructed one after another, ID equals the number of
\* constructor calls made, and the k-th call got id k-1 whether it was given a
\* serial number or not and whether it raised or not.
C9_CounterOncePerAttempt ==
    /\ ID = Len(attempts)
    /\ \A k \in 1..Len(attempts) : attempts[k].id = k - 1

C9_Witness ==
    /\ Len(attempts) >= 3
    /\ attempts[1].exc = "IndexError"
    /\ attempts[2].exc = "none" /\ attempts[2].listed = <<>>
    /\ attempts[3].exc = "CalledProcessError(adb shell ip)" /\ attempts[3].id = 2

\* The constructor call took its serial from a device list made of the header
\* line and exactly one well-formed device line.
OneDeviceListed(a) == a.listed = <<[ok |-> TRUE, out |-> OneDeviceOutput]>>

\* C10 as claimed: every construction with no explicit serial and a one-device
\* list gets serial "ABC123" (unless resolving the address fails afterwards).
C10_OneDeviceAlways ==
    \A k \in 1..Len(attempts) :
        (OneDeviceListed(attempts[k]) /\ attempts[k].exc # "CalledProcessError(adb shell ip)")
            => attempts[k].exc = "none" /\ attempts[k].serial_num = "ABC123"

\* C10 as amended: such a construction gets serial "ABC123" when it is the
\* first construction of the process (id 0); every later one (id >= 1) raises
\* IndexError at devices[self.id] and yields no controller.
C10_OneDeviceFirstOnly ==
    \A k \in 1..Len(attempts) :
        OneDeviceListed(attempts[k]) =>
            IF attempts[k].id = 0
            THEN /\ attempts[k].exc \in {"none", "CalledProcessError(adb shell ip)"}
                 /\ attempts[k].exc = "none" => attempts[k].serial_num = "ABC123"
            ELSE attempts[k].exc = "IndexError"

C10_Witness ==
    /\ Len(attempts) >= 2
    /\ OneDeviceListed(attempts[1])
    /\ attempts[1].exc = "none" /\ attempts[1].serial_num = "ABC123"
    /\ OneDeviceListed(attempts[2])
    /\ attempts[2].exc = "IndexError"

-----------------------------------------------------------------------------
(* _android_list_devices on its own (SpecEnum): the output is the header   *)
(* line followed by up to MaxLines lines drawn from EnumLines.             *)

EnumLines ==
    { LineABC, LineXYZ, LineOneField,
      <<>>, <<" ">>,
      <<" ", "K", " ", " ", "o", "f", "f", "\t">>,     \* leading and doubled blanks
      <<"\t", "Q">> }

RECURSIVE SeqsUpTo(_, _)
SeqsUpTo(S, n) ==
    IF n = 0 THEN {<<>>}
    ELSE LET shorter == SeqsUpTo(S, n - 1)
         IN  shorter \cup {Append(q, x) : q \in {r \in shorter : Len(r) = n - 1}, x \in S}

EnumOutputs == {<<HeaderLine>> \o ls : ls \in SeqsUpTo(EnumLines, MaxLines)}

InitEnum ==
    /\ ProcessStart
    /\ listing \in {[out |-> o, devices |-> <<>>, done |-> FALSE] : o \in EnumOutputs}
    /\ tap = NoTap
    /\ other = "idle"

\* devices = _android_list_devices()
ListDevices ==
    /\ ~listing.done
    /\ listing' = [listing EXCEPT !.devices = _android_list_devices(listing.out),
                                  !.done = TRUE]
    /\ UNCHANGED <<ID, ctlVars, sessVars, attempts, thr, tap, other>>

NextEnum == ListDevices

SpecEnum == InitEnum /\ [][NextEnum]_vars

\* What the claim calls a field, stated on the characters of the line and not
\* by str.split: a field starts at a non-blank character that is first in the
\* line or follows a blank one, and runs up to the next blank or the end.
FieldStarts(line) ==
    {i \in 1..Len(line) : ~IsSpace(line[i]) /\ (i = 1 \/ IsSpace(line[i - 1]))}

Least(S) == CHOOSE i \in S : \A j \in S : i <= j

RECURSIVE Chars(_, _, _)
Chars(line, i, j) == IF i > j THEN "" ELSE line[i] \o Chars(line, i + 1, j)

FirstField(line) ==
    LET b == Least(FieldStarts(line))
        e == Least({j \in (b + 1)..(Len(line) + 1) : j = Len(line) + 1 \/ IsSpace(line[j])})
    IN  Chars(line, b, e - 1)

WellFormed(line) == Cardinality(FieldStarts(line)) >= 2

\* C11: for a header line followed by any lines, the enumerator returns one
\* identifier per well-formed line (two fields or more), namely its first
\* field, in the order of the lines; lines with fewer fields add nothing and
\* move nothing.
C11_EnumeratesWellFormedInOrder ==
    listing.done =>
        LET lines == Tail(listing.out)
            wf == {k \in 1..Len(lines) : WellFormed(lines[k])}
        IN  /\ Len(listing.devices) = Cardinality(wf)
            /\ \A k \in wf :
                listing.devices[Cardinality({m \in wf : m <= k})] = FirstField(lines[k])

C11_Witness ==
    /\ listing.done
    /\ Len(listing.out) = 4
    /\ WellFormed(listing.out[2]) /\ ~WellFormed(listing.out[3]) /\ WellFormed(listing.out[4])
    /\ listing.devices = <<"K", "ABC123">>

-----------------------------------------------------------------------------
(* _adb_tap_ok on its own (SpecTap): one run by a constructed controller's *)
(* callback, on a device showing any of TapScreens.                        *)

Node(t, b) == [text |-> t, bounds |-> b]

OkSmall == Node("OK", <<0, 0, 2, 1>>)
OkLarge == Node("OK", <<1, 1, 4, 3>>)
OkOffScreen == Node("OK", <<-1, 0, 2, 2>>)
PairButton == Node("PAIR", <<2, 0, 3, 3>>)
CancelButton == Node("Cancel", <<0, 2, 1, 3>>)

TapLines ==
    { <<>>, <<CancelButton>>, <<OkSmall>>, <<PairButton>>,
      <<CancelButton, OkSmall, OkLarge>>, <<PairButton, OkLarge>>,
      <<OkOffScreen, PairButton>>, <<OkOffScreen, OkLarge>> }

\* Screens of one element, over every rectangle with corners in -1..MaxCoord.
Rects == {<<x1, y1, x2, y2>> : x1 \in -1..MaxCoord, y1 \in -1..MaxCoord,
                               x2 \in -1..MaxCoord, y2 \in -1..MaxCoord}

TapScreens ==
    SeqsUpTo(TapLines, MaxViewLines)
        \cup {<< <<Node(t, b)>> >> : t \in {"OK", "PAIR"}, b \in Rects}

TapEnvs == [dumpOk : BOOLEAN, pullOk : BOOLEAN, tapOk : BOOLEAN]

\* A controller constructed first in the process, with or without a serial.
InitTap ==
    /\ \E sa \in {NoArg, Arg("SN1")} :
        LET r == AndroidCtl__init__(0, sa, Arg("192.168.0.7"), NoArg,
                                    [ok |-> TRUE, out |-> OneDeviceOutput],
                                    [ok |-> TRUE, out |-> "10.0.0.2"])
        IN  /\ ID = r.ID
            /\ id = r.id
            /\ serial_num = r.serial_num
            /\ host = r.host
            /\ port = r.port
    /\ _btp_socket = None
    /\ _btp_worker = None
    /\ sockets = 0
    /\ workers = <<>>
    /\ frames = <<>>
    /\ call = NoCall
    /\ attempts = <<>>
    /\ thr = NoThreads
    /\ listing = NoListing
    /\ tap \in {[NoTap EXCEPT !.screen = v, !.env = e] : v \in TapScreens, e \in TapEnvs}
    /\ other = "idle"

\* lines 151-154: a callback of the stack runs _adb_tap_ok(self.serial_num)
TapOk ==
    /\ tap.outcome = "none"
    /\ tap' = _adb_tap_ok(serial_num, tap.screen, tap.env)
    /\ UNCHANGED <<ID, ctlVars, sessVars, attempts, thr, listing, other>>

NextTap == TapOk

SpecTap == InitTap /\ [][NextTap]_vars

\* The lines of view that hold an element the pattern matches for text.
Matches(text, e) == e.text = text /\ BoundsMatch(e.bounds)
LinesWith(text, view) ==
    {k \in 1..Len(view) : \E i \in 1..Len(view[k]) : Matches(text, view[k][i])}
LeftmostIn(text, line) == line[Least({i \in 1..Len(line) : Matches(text, line[i])})]

\* c is the centre of bounds b with the halves rounded down: stated without
\* division.
IsFloorCentre(c, b) ==
    /\ 2 * c[1] <= b[1] + b[3] /\ b[1] + b[3] <= 2 * c[1] + 1
    /\ 2 * c[2] <= b[2] + b[4] /\ b[2] + b[4] <= 2 * c[2] + 1

\* arg holds, line by line, the centre of the leftmost text button.
TapsButtons(arg, text, view) ==
    LET ls == LinesWith(text, view)
    IN  /\ Len(arg) = Cardinality(ls)
        /\ \A k \in ls :
            IsFloorCentre(arg[Cardinality({m \in ls : m <= k})],
                          LeftmostIn(text, view[k]).bounds)

\* C12: a run that got the dump looks up "OK" first and "PAIR" only when "OK"
\* gave nothing; it taps the "OK" button when the dump has one, the "PAIR"
\* button when the dump has a "PAIR" button and no "OK" button, and issues
\* exactly one tap command.  No run issues more than one.
C12_OkFirstThenPair ==
    /\ Len(tap.taps) <= 1
    /\ tap.pulled =>
        /\ Len(tap.taps) = 1
        /\ IF LinesWith("OK", tap.screen) # {}
           THEN tap.lookups = <<"OK">> /\ TapsButtons(tap.taps[1], "OK", tap.screen)
           ELSE /\ tap.lookups = <<"OK", "PAIR">>
                /\ LinesWith("PAIR", tap.screen) # {}
                    => TapsButtons(tap.taps[1], "PAIR", tap.screen)

C12_Witness ==
    /\ tap.pulled
    /\ tap.screen = << <<CancelButton>>, <<OkOffScreen, PairButton>> >>
    /\ tap.taps = << << <<2, 1>> >> >>

\* C13: a run that got a dump with neither an "OK" nor a "PAIR" button issues
\* one tap command, with an empty coordinate argument, and raises only if that
\* command fails.
C13_TapsWithNothing ==
    (tap.pulled /\ LinesWith("OK", tap.screen) = {} /\ LinesWith("PAIR", tap.screen) = {}) =>
        /\ tap.taps = << <<>> >>
        /\ tap.outcome = "raised" <=> ~tap.env.tapOk

C13_Witness ==
    /\ tap.pulled /\ tap.outcome = "returned"
    /\ tap.screen = << <<CancelButton>>, <<>> >>
    /\ tap.taps = << <<>> >>

\* C17: for a dump of one button with a label that is looked up, whose
\* rectangle has non-negative corners with x1 < x2 and y1 < y2, the coordinate
\* extracted is (floor((x1+x2)/2), floor((y1+y2)/2)) and lies inside the
\* rectangle.
C17_MidpointInside ==
    (tap.pulled /\ Len(tap.screen) = 1 /\ Len(tap.screen[1]) = 1) =>
        LET b == tap.screen[1][1].bounds
        IN  (/\ tap.screen[1][1].text \in {"OK", "PAIR"}
             /\ BoundsMatch(b) /\ b[1] < b[3] /\ b[2] < b[4]) =>
                /\ Len(tap.coords) = 1
                /\ IsFloorCentre(tap.coords[1], b)
                /\ b[1] <= tap.coords[1][1] /\ tap.coords[1][1] < b[3]
                /\ b[2] <= tap.coords[1][2] /\ tap.coords[1][2] < b[4]

C17_Witness ==
    /\ tap.pulled
    /\ tap.screen = << <<Node("PAIR", <<0, 2, 1, 3>>)>> >>
    /\ tap.coords = << <<0, 2>> >>

-----------------------------------------------------------------------------
(* Claims on the lifecycle, continued *)

\* The workers that are open: open() returned on them and close() was not
\* called.
OpenWorkers == {w \in 1..Len(workers) : workers[w].opened /\ ~workers[w].closed}

\* C14: between public calls at most one worker opened by the controller is
\* open, and an open worker is the one the controller references.  Fails:
\* start() on a Running controller overwrites both references without closing
\* the worker they held.
C14_OpenOnlyWhileReferenced ==
    Idle =>
        /\ Cardinality(OpenWorkers) <= 1
        /\ \A w \in OpenWorkers : w = _btp_worker

\* C15: a call of wait_iut_ready_event() never makes more than one read; a read
\* it makes is on the worker made by the start() of its own reset(), never on
\* the worker referenced before; and a call that returns has made exactly one
\* read, which handed over exactly one frame.
C15_OneReadOnNewWorker ==
    call.name = "wait_iut_ready_event" =>
        /\ call.reads <= 1
        /\ call.reads = 1 =>
            /\ call.startRes = "ok"
            /\ call.readOn = Len(workers)
            /\ call.readOn # call.old
        /\ (Idle /\ call.outcome = "returned") => (call.reads = 1 /\ Len(call.hdr) = 1)

C15_Witness ==
    /\ Idle /\ call.name = "wait_iut_ready_event" /\ call.outcome = "returned"
    /\ call.old = 1 /\ call.readOn = 2 /\ call.reads = 1

-----------------------------------------------------------------------------
(* stop() called from a second execution context while                     *)
(* wait_iut_ready_event() is in progress (SpecStop).  The class holds no   *)
(* lock, so the statements of the two contexts interleave freely.  The     *)
(* position of the second context is kept in other.                        *)

\* The second context calls stop() once, after the reset() of the waiting call
\* has returned and before its read at line 196 has ended.
OtherCallStop ==
    /\ other = "idle"
    /\ call.name = "wait_iut_ready_event"
    /\ frames = <<"wait196">>
    /\ other' = "stop211"
    /\ UNCHANGED <<ID, ctlVars, sessVars, attempts, thr, listing, tap>>

\* line 211: if self._btp_worker:
OtherStop211 ==
    /\ other = "stop211"
    /\ other' = IF _btp_worker # None THEN "stop212" ELSE "returned"
    /\ UNCHANGED <<ID, ctlVars, sessVars, attempts, thr, listing, tap>>

\* line 212: self._btp_worker.close(); the attribute is loaded again, and a
\* None found there has no close().
OtherStop212 ==
    /\ other = "stop212"
    /\ IF _btp_worker # None
       THEN /\ workers' = [workers EXCEPT ![_btp_worker].closed = TRUE]
            /\ other' = "stop213"
       ELSE /\ other' = "raised"
            /\ UNCHANGED workers
    /\ UNCHANGED <<ID, ctlVars, _btp_socket, _btp_worker, sockets, frames, call,
                   attempts, thr, listing, tap>>

\* line 213: self._btp_worker = None
OtherStop213 ==
    /\ other = "stop213"
    /\ _btp_worker' = None
    /\ other' = "stop214"
    /\ UNCHANGED <<ID, ctlVars, _btp_socket, sockets, workers, frames, call,
                   attempts, thr, listing, tap>>

\* line 214: self._btp_socket = None, then stop() returns
OtherStop214 ==
    /\ other = "stop214"
    /\ _btp_socket' = None
    /\ other' = "returned"
    /\ UNCHANGED <<ID, ctlVars, _btp_worker, sockets, workers, frames, call,
                   attempts, thr, listing, tap>>

\* The first context calls wait_iut_ready_event(), one call after another,
\* until the second context has called stop().
NextStop ==
    \/ (other = "idle" /\ CallWait)
    \/ Start176 \/ Start177 \/ Start179 \/ Start180 \/ Start181
    \/ Stop211 \/ Stop213 \/ Stop214
    \/ Reset184 \/ Reset185 \/ Reset191
    \/ Wait194 \/ Wait196 \/ Wait198 \/ Wait204
    \/ OtherCallStop \/ OtherStop211 \/ OtherStop212 \/ OtherStop213 \/ OtherStop214

SpecStop == Init /\ [][NextStop]_vars

\* C16: when stop() is called from a second context during
\* wait_iut_ready_event(), the waiting call never looks up read() on an absent
\* worker reference, neither context fails on an absent reference, and once
\* both have ended the controller is Stopped.  Fails: the second context's
\* stop() can run lines 211-213 between the return of reset() and line 196.
C16_ConcurrentStopSafe ==
    (call.name = "wait_iut_ready_event" /\ other # "idle") =>
        /\ ~call.noneDeref
        /\ other # "raised"
        /\ (Idle /\ other = "returned") => Stopped

-----------------------------------------------------------------------------
(* The lifecycle together with the pairing callbacks (SpecFrame).  The     *)
(* stack calls the two closures of lines 151-154 when the event handler of *)
(* a worker dispatches a pairing event, at any point between two           *)
(* statements of the controller's methods.                                 *)

\* The screens and command outcomes a callback may meet.
FrameScreens == { << <<OkSmall>> >>, << <<CancelButton>> >> }
FrameEnvs == {e \in TapEnvs : e.pullOk /\ e.tapOk}

\* A worker is dispatching events: the handler is registered, the worker is
\* accepting and has not been closed.
Dispatching ==
    \E w \in 1..Len(workers) :
        workers[w].registered /\ workers[w].accepting /\ ~workers[w].closed

\* lines 151-152: lambda addr: _adb_tap_ok(self.serial_num)
PairingConsentCb ==
    /\ Dispatching
    /\ \E v \in FrameScreens, e \in FrameEnvs :
        tap' = _adb_tap_ok(serial_num, v, e)
    /\ UNCHANGED <<ID, ctlVars, sessVars, attempts, thr, listing, other>>

\* lines 153-154: lambda addr, match: _adb_tap_ok(self.serial_num)
PasskeyConfirmCb ==
    /\ Dispatching
    /\ \E match \in BOOLEAN, v \in FrameScreens, e \in FrameEnvs :
        tap' = _adb_tap_ok(serial_num, v, e)
    /\ UNCHANGED <<ID, ctlVars, sessVars, attempts, thr, listing, other>>

\* One controller, constructed first in its process, with or without an
\* explicit serial and port.
InitFrame ==
    /\ \E sa \in {NoArg, Arg("SN1")}, pa \in {NoArg, Arg(9000)} :
        LET r == AndroidCtl__init__(0, sa, NoArg, pa,
                                    [ok |-> TRUE, out |-> OneDeviceOutput],
                                    [ok |-> TRUE, out |-> "10.0.0.2"])
        IN  /\ ID = r.ID
            /\ id = r.id
            /\ serial_num = r.serial_num
            /\ host = r.host
            /\ port = r.port
    /\ _btp_socket = None
    /\ _btp_worker = None
    /\ sockets = 0
    /\ workers = <<>>
    /\ frames = <<>>
    /\ call = NoCall
    /\ attempts = <<>>
    /\ thr = NoThreads
    /\ AuxIdle

NextFrame ==
    \/ CallStart \/ CallStop \/ CallReset \/ CallWait
    \/ Start176 \/ Start177 \/ Start179 \/ Start180 \/ Start181
    \/ Stop211 \/ Stop213 \/ Stop214
    \/ Reset184 \/ Reset185 \/ Reset191
    \/ Wait194 \/ Wait196 \/ Wait198 \/ Wait204
    \/ PairingConsentCb \/ PasskeyConfirmCb

SpecFrame == InitFrame /\ [][NextFrame]_vars

\* C18: no statement of start(), stop(), reset() or wait_iut_ready_event() and
\* no run of a pairing callback changes the controller's id, serial, host or
\* port.
C18_IdentityUnchanged == [][ctlVars' = ctlVars]_vars

\* A controller constructed with serial "SN1" and port 9000 that has had a
\* worker replaced by wait_iut_ready_event() and a callback run on it.
C18_Witness ==
    /\ Idle /\ call.name = "wait_iut_ready_event" /\ call.outcome = "returned"
    /\ call.old # None /\ Running
    /\ tap.outcome = "returned" /\ tap.sn = "SN1"
    /\ id = 0 /\ serial_num = "SN1" /\ host = "10.0.0.2" /\ port = 9000

====
